---- MODULE Spec2Model ----
(***************************************************************************)
(* Model of the two scripts of the repository:                             *)
(*   files/arxiv_scraper.py          fetch_arxiv_math_na                   *)
(*   files/transport_sys_periodic.py the transient transport simulation    *)
(* Each script is a sequential program; it gets its own specification      *)
(* (SpecScraper, SpecSim) over its own variables.  periodic_relation, a    *)
(* pure function of the simulation script, is exercised by SpecRel.        *)
(***************************************************************************)
EXTENDS Integers, Sequences, FiniteSets, TLC

VARIABLES
    \* ---- transport_sys_periodic.py ----
    pcSim,        \* position in the script
    Nt,           \* number of time steps (line 132)
    i,            \* loop variable of "for i in range(Nt)"; -1 before the loop
    t,            \* simulated time, counted in multiples of dt
    V_old, p_old, \* fields of the previous time step
    V_new, p_new, \* fields of the new time step
    L,            \* nested right-hand side vector, one block per field
    Vp_vec,       \* nested solution vector
    plotterV,     \* pyvista plotter of the V animation
    plotterp,     \* pyvista plotter of the p animation
    progress_0,   \* percentage at which the progress line was last printed
    stdoutSim,    \* progress lines printed so far
    \* ---- arxiv_scraper.py ----
    pcScr,        \* position in fetch_arxiv_math_na
    keywords,     \* argument: set of keyword strings
    authors,      \* argument: set of author strings
    status,       \* response.status_code
    idx,          \* number of (dt, dd) pairs taken from zip so far
    dt_tag,       \* the <dt> block of the current pair
    dd_tag,       \* the <dd> block of the current pair
    printed,      \* the block the current pass of the loop printed, if any
    stdoutScr,    \* number of blocks printed so far
    skipped,      \* number of pairs left by "continue" so far
    \* ---- periodic_relation ----
    pcRel,        \* number of applications of periodic_relation done
    x,            \* input coordinate array (3 rows, one column per point)
    out_x,        \* periodic_relation(x)
    out_x2        \* periodic_relation(out_x)

simVars == <<pcSim, Nt, i, t, V_old, p_old, V_new, p_new, L, Vp_vec,
             plotterV, plotterp, progress_0, stdoutSim>>
scrVars == <<pcScr, keywords, authors, status, idx, dt_tag, dd_tag, printed,
             stdoutScr, skipped>>
relVars == <<pcRel, x, out_x, out_x2>>
vars == <<simVars, scrVars, relVars>>

(***************************************************************************)
(* Bounds of the model                                                     *)
(***************************************************************************)
MaxNt == 6        \* step counts 0..MaxNt are explored next to the script's own
MaxEntries == 2   \* (dt, dd) pairs on the listing page
MaxText == 2      \* symbols in the text of a title or author block
NumPts == 2       \* points (columns) in the array given to periodic_relation
MaxCoord == 2     \* coordinates are drawn from 0..MaxCoord

(***************************************************************************)
(* transport_sys_periodic.py                                               *)
(***************************************************************************)
NtScript == 100   \* Nt = 100
warp_gif == TRUE  \* warp_gif = True

\* The values of Nt the model runs the script with.
NtValues == (0..MaxNt) \cup {NtScript}

\* A finite-element function is abstracted to its time level: the initial
\* condition is level 0 and one step of the scheme takes a consistent pair
\* (V, p) of level n to level n+1.  "slaves" tells whether the periodic
\* slave degrees of freedom carry the values of their masters.
None == [field |-> "none", kind |-> "none", level |-> 0, slaves |-> FALSE]
InitialV == [field |-> "V", kind |-> "ic", level |-> 0, slaves |-> TRUE]
Initialp == [field |-> "p", kind |-> "ic", level |-> 0, slaves |-> TRUE]
ZeroFunction(f) == [field |-> f, kind |-> "zero", level |-> 0, slaves |-> TRUE]

NoVec == <<>>

\* l = form([...]) assembled into L: both blocks read V_old and p_old.
\* The vector holds the newly assembled values only, nothing of the last pass.
RhsBlock(b, V, p) == [block |-> b, V |-> V, p |-> p, lifted |-> FALSE, bc |-> FALSE]
assemble_vector_nest(V, p) == <<RhsBlock(0, V, p), RhsBlock(1, V, p)>>

\* apply_lifting_nest + ghostUpdate, then set_bc_nest.
apply_lifting_nest(vec) == [k \in DOMAIN vec |-> [vec[k] EXCEPT !.lifted = TRUE]]
set_bc_nest(vec) == [k \in DOMAIN vec |-> [vec[k] EXCEPT !.bc = vec[k].lifted]]

\* A right-hand side from which the scheme yields the next time level.
Consistent(vec) ==
    /\ Len(vec) = 2
    /\ \A k \in 1..2 :
          /\ vec[k].block = k - 1
          /\ vec[k].lifted /\ vec[k].bc
          /\ vec[k].V.field = "V" /\ vec[k].p.field = "p"
          /\ vec[k].V.kind \in {"ic", "sol"} /\ vec[k].p.kind \in {"ic", "sol"}
          /\ vec[k].V.slaves /\ vec[k].p.slaves
          /\ vec[k].V.level = vec[k].p.level

\* solver.solve(L, Vp_vec): block 0 of the solution is V, block 1 is p; the
\* slave degrees of freedom are not part of the reduced system.
SolBlock(f, vec) ==
    IF Consistent(vec)
    THEN [field |-> f, kind |-> "sol", level |-> vec[1].V.level + 1, slaves |-> FALSE]
    ELSE [field |-> f, kind |-> "bad", level |-> 0, slaves |-> FALSE]
solve(vec) == <<SolBlock("V", vec), SolBlock("p", vec)>>

\* mpc.backsubstitution(u)
backsubstitution(u) == [u EXCEPT !.slaves = TRUE]

\* create_gif: an open plotter without frames.
create_gif(plotfunc) == [open |-> TRUE, frames |-> <<>>, uh1 |-> plotfunc]

\* update_gif: every branch ends in plotter.write_frame().
update_gif(plotter, plotfunc, warp, clip) ==
    LET mesh == IF warp /\ clip THEN "plain"
                ELSE IF warp THEN "warped"
                ELSE IF clip THEN "clipped"
                ELSE "plain"
    IN [plotter EXCEPT !.frames = Append(@, [mesh |-> mesh, uh |-> plotfunc])]

finalize_gif(plotter) == [plotter EXCEPT !.open = FALSE]

\* int(((i+1) / Nt) * 100) in IEEE double arithmetic.  The quotient j/n is
\* rounded, and for the pairs below the product falls just short of the
\* integer j*100/n, so int() gives one less than the exact quotient.
FloatShort == {<<29, 100>>, <<57, 100>>, <<58, 100>>}
Percent(j, n) == ((j * 100) \div n) - (IF <<j, n>> \in FloatShort THEN 1 ELSE 0)

NoPlotter == [open |-> FALSE, frames |-> <<>>, uh1 |-> None]

InitSim ==
    /\ pcSim = "parameters"
    /\ Nt \in NtValues
    /\ i = -1
    /\ t = 0
    /\ V_old = None /\ p_old = None /\ V_new = None /\ p_new = None
    /\ L = NoVec /\ Vp_vec = NoVec
    /\ plotterV = NoPlotter /\ plotterp = NoPlotter
    /\ progress_0 = 0
    /\ stdoutSim = <<>>

\* lines 131-139: dt = T_end/Nt raises ZeroDivisionError when Nt = 0.
Parameters ==
    /\ pcSim = "parameters"
    /\ pcSim' = IF Nt = 0 THEN "ZeroDivisionError" ELSE "setup"
    /\ UNCHANGED <<Nt, i, t, V_old, p_old, V_new, p_new, L, Vp_vec,
                   plotterV, plotterp, progress_0, stdoutSim>>
    /\ UNCHANGED <<scrVars, relVars>>

\* lines 143-229: spaces, initial conditions, plotters, constraints, system
\* matrix, solver, right-hand side vector, progress_0 = 0.
Setup ==
    /\ pcSim = "setup"
    /\ V_old' = InitialV
    /\ p_old' = Initialp
    /\ plotterV' = create_gif(InitialV)
    /\ plotterp' = create_gif(Initialp)
    /\ V_new' = ZeroFunction("V")
    /\ p_new' = ZeroFunction("p")
    /\ L' = <<RhsBlock(0, None, None), RhsBlock(1, None, None)>>
    /\ progress_0' = 0
    /\ pcSim' = "for"
    /\ UNCHANGED <<Nt, i, t, Vp_vec, stdoutSim>>
    /\ UNCHANGED <<scrVars, relVars>>

\* lines 230-231: next value of range(Nt), t += dt; or the loop ends.
ForNext ==
    /\ pcSim = "for"
    /\ i + 1 < Nt
    /\ i' = i + 1
    /\ t' = t + 1
    /\ pcSim' = "assemble"
    /\ UNCHANGED <<Nt, V_old, p_old, V_new, p_new, L, Vp_vec,
                   plotterV, plotterp, progress_0, stdoutSim>>
    /\ UNCHANGED <<scrVars, relVars>>

ForEnd ==
    /\ pcSim = "for"
    /\ i + 1 >= Nt
    /\ pcSim' = "finalize"
    /\ UNCHANGED <<Nt, i, t, V_old, p_old, V_new, p_new, L, Vp_vec,
                   plotterV, plotterp, progress_0, stdoutSim>>
    /\ UNCHANGED <<scrVars, relVars>>

\* line 234
AssembleRhs ==
    /\ pcSim = "assemble"
    /\ L' = assemble_vector_nest(V_old, p_old)
    /\ pcSim' = "bc"
    /\ UNCHANGED <<Nt, i, t, V_old, p_old, V_new, p_new, Vp_vec,
                   plotterV, plotterp, progress_0, stdoutSim>>
    /\ UNCHANGED <<scrVars, relVars>>

\* lines 237-241
ApplyBc ==
    /\ pcSim = "bc"
    /\ L' = set_bc_nest(apply_lifting_nest(L))
    /\ pcSim' = "solve"
    /\ UNCHANGED <<Nt, i, t, V_old, p_old, V_new, p_new, Vp_vec,
                   plotterV, plotterp, progress_0, stdoutSim>>
    /\ UNCHANGED <<scrVars, relVars>>

\* lines 244-245
Solve ==
    /\ pcSim = "solve"
    /\ Vp_vec' = solve(L)
    /\ pcSim' = "extract"
    /\ UNCHANGED <<Nt, i, t, V_old, p_old, V_new, p_new, L,
                   plotterV, plotterp, progress_0, stdoutSim>>
    /\ UNCHANGED <<scrVars, relVars>>

\* lines 248-249
Extract ==
    /\ pcSim = "extract"
    /\ V_new' = Vp_vec[1]
    /\ p_new' = Vp_vec[2]
    /\ pcSim' = "backsub"
    /\ UNCHANGED <<Nt, i, t, V_old, p_old, L, Vp_vec,
                   plotterV, plotterp, progress_0, stdoutSim>>
    /\ UNCHANGED <<scrVars, relVars>>

\* lines 257-258
Backsubstitute ==
    /\ pcSim = "backsub"
    /\ V_new' = backsubstitution(V_new)
    /\ p_new' = backsubstitution(p_new)
    /\ pcSim' = "gif"
    /\ UNCHANGED <<Nt, i, t, V_old, p_old, L, Vp_vec,
                   plotterV, plotterp, progress_0, stdoutSim>>
    /\ UNCHANGED <<scrVars, relVars>>

\* Variant: the frames show the new fields.
UpdateGifs_New ==
    /\ pcSim = "gif"
    /\ plotterV' = update_gif(plotterV, V_new, warp_gif, FALSE)
    /\ plotterp' = update_gif(plotterp, p_new, warp_gif, FALSE)
    /\ pcSim' = "progress"
    /\ UNCHANGED <<Nt, i, t, V_old, p_old, V_new, p_new, L, Vp_vec,
                   progress_0, stdoutSim>>
    /\ UNCHANGED <<scrVars, relVars>>

\* lines 261-262: plotfuncV is V_old and plotfuncp is p_old (lines 165-166).
UpdateGifs ==
    /\ pcSim = "gif"
    /\ plotterV' = update_gif(plotterV, V_old, warp_gif, FALSE)
    /\ plotterp' = update_gif(plotterp, p_old, warp_gif, FALSE)
    /\ pcSim' = "progress"
    /\ UNCHANGED <<Nt, i, t, V_old, p_old, V_new, p_new, L, Vp_vec,
                   progress_0, stdoutSim>>
    /\ UNCHANGED <<scrVars, relVars>>

\* lines 265-269
ProgressLine(progress) ==
    [i |-> i, progress |-> progress, time |-> t, EV |-> V_new, Ep |-> p_new]

\* Variant: progress_0 is not advanced.
ProgressPrint_NoUpdate ==
    /\ pcSim = "progress"
    /\ Percent(i + 1, Nt) >= progress_0 + 20
    /\ stdoutSim' = Append(stdoutSim, ProgressLine(Percent(i + 1, Nt)))
    /\ pcSim' = "advance"
    /\ UNCHANGED <<Nt, i, t, V_old, p_old, V_new, p_new, L, Vp_vec,
                   plotterV, plotterp, progress_0>>
    /\ UNCHANGED <<scrVars, relVars>>

ProgressPrint ==
    /\ pcSim = "progress"
    /\ Percent(i + 1, Nt) >= progress_0 + 20
    /\ progress_0' = Percent(i + 1, Nt)
    /\ stdoutSim' = Append(stdoutSim, ProgressLine(Percent(i + 1, Nt)))
    /\ pcSim' = "advance"
    /\ UNCHANGED <<Nt, i, t, V_old, p_old, V_new, p_new, L, Vp_vec,
                   plotterV, plotterp>>
    /\ UNCHANGED <<scrVars, relVars>>

ProgressSkip ==
    /\ pcSim = "progress"
    /\ ~(Percent(i + 1, Nt) >= progress_0 + 20)
    /\ pcSim' = "advance"
    /\ UNCHANGED <<Nt, i, t, V_old, p_old, V_new, p_new, L, Vp_vec,
                   plotterV, plotterp, progress_0, stdoutSim>>
    /\ UNCHANGED <<scrVars, relVars>>

\* Variant: only V_old is overwritten.
Advance_Vonly ==
    /\ pcSim = "advance"
    /\ V_old' = V_new
    /\ pcSim' = "for"
    /\ UNCHANGED <<Nt, i, t, p_old, V_new, p_new, L, Vp_vec,
                   plotterV, plotterp, progress_0, stdoutSim>>
    /\ UNCHANGED <<scrVars, relVars>>

\* lines 272-273
Advance ==
    /\ pcSim = "advance"
    /\ V_old' = V_new
    /\ p_old' = p_new
    /\ pcSim' = "for"
    /\ UNCHANGED <<Nt, i, t, V_new, p_new, L, Vp_vec,
                   plotterV, plotterp, progress_0, stdoutSim>>
    /\ UNCHANGED <<scrVars, relVars>>

\* lines 276-278
Finalize ==
    /\ pcSim = "finalize"
    /\ plotterV' = finalize_gif(plotterV)
    /\ plotterp' = finalize_gif(plotterp)
    /\ pcSim' = "done"
    /\ UNCHANGED <<Nt, i, t, V_old, p_old, V_new, p_new, L, Vp_vec,
                   progress_0, stdoutSim>>
    /\ UNCHANGED <<scrVars, relVars>>

SimDone == pcSim \in {"done", "ZeroDivisionError"}

NextSim ==
    \/ Parameters
    \/ Setup
    \/ ForNext
    \/ ForEnd
    \/ AssembleRhs
    \/ ApplyBc
    \/ Solve
    \/ Extract
    \/ Backsubstitute
    \/ UpdateGifs
    \/ ProgressPrint
    \/ ProgressSkip
    \/ Advance
    \/ Finalize

(***************************************************************************)
(* arxiv_scraper.py                                                        *)
(***************************************************************************)
\* Strings are sequences of symbols.  A symbol is a letter, a blank, or one
\* of the descriptor words of the listing page taken as a whole.
TitleLabel == <<"Title:">>
AuthorsLabel == <<"Authors:">>
AbsPrefix == <<"https://arxiv.org/abs/">>
Whitespace == {" "}

\* str.lower(), symbol by symbol
LowerChar(c) == IF c = "A" THEN "a" ELSE IF c = "B" THEN "b" ELSE c
lower(s) == [k \in DOMAIN s |-> LowerChar(s[k])]

\* str.replace(old, ""): the occurrences of old are removed, left to right
RECURSIVE remove(_, _)
remove(s, old) ==
    IF Len(s) < Len(old) \/ old = <<>> THEN s
    ELSE IF SubSeq(s, 1, Len(old)) = old
         THEN remove(SubSeq(s, Len(old) + 1, Len(s)), old)
         ELSE <<Head(s)>> \o remove(Tail(s), old)

\* str.strip()
RECURSIVE lstrip(_)
lstrip(s) == IF s # <<>> /\ Head(s) \in Whitespace THEN lstrip(Tail(s)) ELSE s
RECURSIVE rstrip(_)
rstrip(s) ==
    IF s # <<>> /\ s[Len(s)] \in Whitespace THEN rstrip(SubSeq(s, 1, Len(s) - 1)) ELSE s
strip(s) == rstrip(lstrip(s))

\* the Python operator "sub in s" on strings
in(sub, s) == \E p \in 0..(Len(s) - Len(sub)) : SubSeq(s, p + 1, p + Len(sub)) = sub

\* All sequences over S of length at most n.
RECURSIVE SeqsUpTo(_, _)
SeqsUpTo(S, n) ==
    IF n = 0 THEN {<<>>}
    ELSE LET shorter == SeqsUpTo(S, n - 1)
         IN shorter \cup {Append(s, c) : s \in shorter, c \in S}

\* The inputs: argument sets, status codes and blocks of the listing page.
\* A title block reads descriptor, blank, title, blank; an author block reads
\* blank, names; the text of an abstract link is padded with blanks.
KeywordPool == {<<"a">>, <<"B", "A">>}
AuthorPool == {<<"a", "A">>}
StatusCodes == {200, 304, 404, 503}
TitleTexts == {TitleLabel \o <<" ">> \o s \o <<" ">> : s \in SeqsUpTo({"A", "b"}, MaxText)}
AuthorTexts == {<<" ">> \o s : s \in SeqsUpTo({"A"}, MaxText)}
IdTexts == {<<" ", "2501.00001", " ">>}

NoDiv == [found |-> FALSE, text |-> <<>>]
Div(s) == [found |-> TRUE, text |-> s]
NoLink == [found |-> FALSE, text |-> <<>>]
DtTags == {NoLink} \cup {[found |-> TRUE, text |-> s] : s \in IdTexts}
DdTags == [title : {NoDiv} \cup {Div(s) : s \in TitleTexts},
           authors : {NoDiv} \cup {Div(s) : s \in AuthorTexts}]

NoTag == [found |-> FALSE, text |-> <<>>]
NoDd == [title |-> NoDiv, authors |-> NoDiv]
NoBlock == <<>>

\* Variant: every <dt> block counts as having an abstract link.
link_tag_Any(dt) == TRUE
\* lines 39-43
link_tag(dt) == dt.found
abs_link(dt) == AbsPrefix \o strip(dt.text)
\* Variant: an absent title block is not defaulted to the empty string.
title_NoDefault(dd) ==
    IF dd.title.found THEN strip(remove(dd.title.text, TitleLabel)) ELSE <<"None">>
\* lines 46-50
title(dd) == IF dd.title.found THEN strip(remove(dd.title.text, TitleLabel)) ELSE <<>>
\* lines 53-57
author_text(dd) ==
    IF dd.authors.found THEN strip(remove(dd.authors.text, AuthorsLabel)) ELSE <<>>
\* Variant: the title is compared without lowering it.
matches_NoLower(dd, kws, aus) ==
    \/ \E k \in kws : in(lower(k), title(dd))
    \/ \E a \in aus : in(lower(a), lower(author_text(dd)))
\* Variant: all() in place of any().
matches_All(dd, kws, aus) ==
    \/ \A k \in kws : in(lower(k), lower(title(dd)))
    \/ \A a \in aus : in(lower(a), lower(author_text(dd)))
\* lines 60-62
matches(dd, kws, aus) ==
    \/ \E k \in kws : in(lower(k), lower(title(dd)))
    \/ \E a \in aus : in(lower(a), lower(author_text(dd)))
\* lines 63-65
block(dt, dd) == <<title(dd), author_text(dd), abs_link(dt)>>

\* Variant: only server errors raise.
raises_ServerOnly(code) == 500 <= code /\ code < 600
\* response.raise_for_status() raises HTTPError for 4xx and 5xx codes
raises(code) == 400 <= code /\ code < 600

InitScraper ==
    /\ pcScr = "get"
    /\ keywords \in SUBSET KeywordPool
    /\ authors \in SUBSET AuthorPool
    /\ status = 0
    /\ idx = 0
    /\ dt_tag = NoTag
    /\ dd_tag = NoDd
    /\ printed = NoBlock
    /\ stdoutScr = 0
    /\ skipped = 0

\* line 29
Get ==
    /\ pcScr = "get"
    /\ \E code \in StatusCodes : status' = code
    /\ pcScr' = "raise_for_status"
    /\ UNCHANGED <<keywords, authors, idx, dt_tag, dd_tag, printed, stdoutScr, skipped>>
    /\ UNCHANGED <<simVars, relVars>>

\* lines 30-33
RaiseForStatus ==
    /\ pcScr = "raise_for_status"
    /\ pcScr' = IF raises(status) THEN "HTTPError" ELSE "for"
    /\ UNCHANGED <<keywords, authors, status, idx, dt_tag, dd_tag, printed, stdoutScr,
                   skipped>>
    /\ UNCHANGED <<simVars, relVars>>

\* lines 36-65: one pass of the loop over the pair (dt, dd)
LoopBody(dt, dd) ==
    /\ idx' = idx + 1
    /\ dt_tag' = dt
    /\ dd_tag' = dd
    /\ IF ~link_tag(dt)
       THEN /\ printed' = NoBlock
            /\ stdoutScr' = stdoutScr
            /\ skipped' = skipped + 1
       ELSE IF matches(dd, keywords, authors)
            THEN /\ printed' = block(dt, dd)
                 /\ stdoutScr' = stdoutScr + 1
                 /\ skipped' = skipped
            ELSE /\ printed' = NoBlock
                 /\ stdoutScr' = stdoutScr
                 /\ skipped' = skipped
    /\ pcScr' = "for"

ZipNext ==
    /\ pcScr = "for"
    /\ idx < MaxEntries
    /\ \E dt \in DtTags, dd \in DdTags : LoopBody(dt, dd)
    /\ UNCHANGED <<keywords, authors, status>>
    /\ UNCHANGED <<simVars, relVars>>

\* zip is exhausted: the function returns
ZipEnd ==
    /\ pcScr = "for"
    /\ pcScr' = "return"
    /\ UNCHANGED <<keywords, authors, status, idx, dt_tag, dd_tag, printed, stdoutScr,
                   skipped>>
    /\ UNCHANGED <<simVars, relVars>>

NextScraper ==
    \/ Get
    \/ RaiseForStatus
    \/ ZipNext
    \/ ZipEnd

(***************************************************************************)
(* periodic_relation (transport_sys_periodic.py, lines 181-185)            *)
(***************************************************************************)
Coord == 0..MaxCoord
Arrays == [1..3 -> [1..NumPts -> Coord]]

zeros_like(a) == [r \in DOMAIN a |-> [c \in DOMAIN a[r] |-> 0]]

\* Variant: the first coordinate is shifted by one period.
periodic_relation_Shift(a) ==
    LET z == zeros_like(a)
        z0 == [z EXCEPT ![1] = [c \in DOMAIN z[1] |-> a[1][c] - 1]]
    IN [z0 EXCEPT ![2] = a[2]]

periodic_relation(a) ==
    LET z == zeros_like(a)
        z0 == [z EXCEPT ![1] = [c \in DOMAIN z[1] |-> 0]]
    IN [z0 EXCEPT ![2] = a[2]]

NoArray == <<>>

InitRel ==
    /\ pcRel = 0
    /\ x \in Arrays
    /\ out_x = NoArray
    /\ out_x2 = NoArray

Relate ==
    /\ pcRel = 0
    /\ out_x' = periodic_relation(x)
    /\ pcRel' = 1
    /\ UNCHANGED <<x, out_x2>>
    /\ UNCHANGED <<simVars, scrVars>>

RelateAgain ==
    /\ pcRel = 1
    /\ out_x2' = periodic_relation(out_x)
    /\ pcRel' = 2
    /\ UNCHANGED <<x, out_x>>
    /\ UNCHANGED <<simVars, scrVars>>

NextRel ==
    \/ Relate
    \/ RelateAgain

(***************************************************************************)
(* Specifications: one script at a time, the others stay idle.             *)
(***************************************************************************)
IdleSim ==
    /\ pcSim = "idle" /\ Nt = 0 /\ i = -1 /\ t = 0
    /\ V_old = None /\ p_old = None /\ V_new = None /\ p_new = None
    /\ L = NoVec /\ Vp_vec = NoVec
    /\ plotterV = NoPlotter /\ plotterp = NoPlotter
    /\ progress_0 = 0 /\ stdoutSim = <<>>

IdleScraper ==
    /\ pcScr = "idle" /\ keywords = {} /\ authors = {} /\ status = 0 /\ idx = 0
    /\ dt_tag = NoTag /\ dd_tag = NoDd /\ printed = NoBlock /\ stdoutScr = 0
    /\ skipped = 0

IdleRel == pcRel = -1 /\ x = NoArray /\ out_x = NoArray /\ out_x2 = NoArray

StartSim == InitSim /\ IdleScraper /\ IdleRel
StartScraper == InitScraper /\ IdleSim /\ IdleRel
StartRel == InitRel /\ IdleSim /\ IdleScraper

SpecSim == StartSim /\ [][NextSim]_vars
SpecScraper == StartScraper /\ [][NextScraper]_vars
SpecRel == StartRel /\ [][NextRel]_vars

(***************************************************************************)
(* Properties of fetch_arxiv_math_na (checked under SpecScraper)           *)
(***************************************************************************)
\* Containment without regard to case, letter by letter.
SameLetter(c, d) == c = d \/ {c, d} \in {{"a", "A"}, {"b", "B"}}
ContainsIgnoringCase(sub, s) ==
    \E p \in 0..(Len(s) - Len(sub)) : \A j \in 1..Len(sub) : SameLetter(sub[j], s[p + j])
KeywordHit == \E k \in keywords : ContainsIgnoringCase(k, title(dd_tag))
AuthorHit == \E a \in authors : ContainsIgnoringCase(a, author_text(dd_tag))
\* A pair has been taken from the page and its pass of the loop is over.
Processed == idx >= 1 /\ pcScr \in {"for", "return"}

\* C1: an entry with an abstract link is printed exactly when a keyword is a
\* case-insensitive substring of its title or an author string is a
\* case-insensitive substring of its author text.
C1_PrintedIffMatch ==
    (Processed /\ dt_tag.found) => ((printed # NoBlock) <=> (KeywordHit \/ AuthorHit))

\* C1 witness: an entry printed on a keyword alone, the keyword differing
\* from the title in case.
C1_Witness ==
    /\ Processed /\ dt_tag.found /\ printed # NoBlock
    /\ ~AuthorHit /\ authors # {}
    /\ \E k \in keywords : ContainsIgnoringCase(k, title(dd_tag)) /\ ~in(k, title(dd_tag))

\* C2: an entry without abstract link is never printed, whatever its texts
\* and the argument sets, and the entries after it are processed as usual.
C2_SkippedSilently ==
    /\ (idx >= 1 /\ ~dt_tag.found) => (printed = NoBlock /\ pcScr \in {"for", "return"})
    /\ stdoutScr + skipped <= idx
    /\ (skipped >= 1 /\ Processed /\ dt_tag.found) =>
          ((printed # NoBlock) <=> (KeywordHit \/ AuthorHit))
    /\ (skipped >= 1 /\ pcScr = "return") => idx >= 1

\* C2 witness: a pair was skipped and a later entry was printed.
C2_Witness == skipped >= 1 /\ idx >= 2 /\ dt_tag.found /\ printed # NoBlock

\* C3: with an empty keyword set and an empty author set nothing is printed.
C3_EmptySetsPrintNothing ==
    (keywords = {} /\ authors = {}) => (stdoutScr = 0 /\ printed = NoBlock)

\* C3 witness: the whole page was processed with empty sets, entries with
\* link, title and authors among them.
C3_Witness ==
    /\ keywords = {} /\ authors = {} /\ pcScr = "return" /\ idx >= 2
    /\ dt_tag.found /\ title(dd_tag) # <<>> /\ author_text(dd_tag) # <<>>

\* The status check has been made.
Checked == pcScr \notin {"idle", "get", "raise_for_status"}

\* C4 as stated: every non-2xx status ends the call with an error before any
\* entry is parsed.
C4_Non2xxIsFatal ==
    (Checked /\ status \notin 200..299) =>
        (pcScr = "HTTPError" /\ idx = 0 /\ stdoutScr = 0)

\* C4 amended: a 4xx or 5xx status ends the call with an error before any
\* entry is parsed and nothing is printed; entries are parsed and printed
\* only after the status check has passed.
C4_ErrorStatusIsFatal ==
    /\ (Checked /\ status \in 400..599) =>
          (pcScr = "HTTPError" /\ idx = 0 /\ stdoutScr = 0 /\ printed = NoBlock)
    /\ (idx >= 1 \/ stdoutScr > 0 \/ pcScr \in {"for", "return"}) =>
          (Checked /\ status \notin 400..599)

\* C4 witness: the call ended with the error on a 404.
C4_Witness == pcScr = "HTTPError" /\ status = 404 /\ idx = 0

\* C5: an absent title (author) block counts as the empty string: the run
\* does not fail, the entry matches on the other field and is printed with
\* the absent field empty.
C5_AbsentFieldIsEmpty ==
    /\ (Processed /\ dt_tag.found /\ ~dd_tag.title.found) =>
          /\ (printed # NoBlock) <=>
                ((\E k \in keywords : ContainsIgnoringCase(k, <<>>)) \/ AuthorHit)
          /\ printed # NoBlock => (printed[1] = <<>> /\ printed[2] = author_text(dd_tag))
    /\ (Processed /\ dt_tag.found /\ ~dd_tag.authors.found) =>
          /\ (printed # NoBlock) <=>
                (KeywordHit \/ (\E a \in authors : ContainsIgnoringCase(a, <<>>)))
          /\ printed # NoBlock => (printed[2] = <<>> /\ printed[1] = title(dd_tag))
    /\ (idx >= 1 /\ dt_tag.found /\ (~dd_tag.title.found \/ ~dd_tag.authors.found)) =>
          pcScr \in {"for", "return"}

\* C5 witness: an entry without title block printed on its authors.
C5_Witness ==
    /\ Processed /\ dt_tag.found /\ ~dd_tag.title.found /\ dd_tag.authors.found
    /\ printed # NoBlock /\ printed[1] = <<>> /\ printed[2] # <<>>

(***************************************************************************)
(* Properties of the simulation script (checked under SpecSim)             *)
(***************************************************************************)
\* C6 as stated: with Nt = 0 the script runs to its end without a pass of
\* the time loop and the final fields are the initial conditions.
C6_ZeroStepsRunsToEnd ==
    (Nt = 0 /\ SimDone) =>
        /\ pcSim = "done"
        /\ i = -1
        /\ V_old = InitialV /\ p_old = Initialp

\* C8: within a pass the right-hand side is assembled from V_old and p_old,
\* then lifted and given its boundary values, then the system is solved, the
\* solution split, the slaves back-substituted, one frame written per
\* animation, and only then V_old and p_old overwritten; a pass ends with
\* V_old = V_new and p_old = p_new, and the next right-hand side is built
\* from that solution.
FromOld(vec) == Len(vec) = 2 /\ \A k \in 1..2 : vec[k].V = V_old /\ vec[k].p = p_old
IsLevel(u, n) == IF n = 0 THEN u.kind = "ic" ELSE u.kind = "sol" /\ u.level = n
OldIsCurrent == IsLevel(V_old, i) /\ IsLevel(p_old, i)
NewIsNext == IsLevel(V_new, i + 1) /\ IsLevel(p_new, i + 1)
Frames(n) == Len(plotterV.frames) = n /\ Len(plotterp.frames) = n
C8_StepOrder ==
    /\ pcSim = "bc" =>
          /\ FromOld(L) /\ OldIsCurrent
          /\ \A k \in 1..2 : ~L[k].lifted /\ ~L[k].bc
          /\ i >= 1 => (V_old = V_new /\ p_old = p_new)
    /\ pcSim = "solve" =>
          /\ FromOld(L) /\ \A k \in 1..2 : L[k].lifted /\ L[k].bc
          /\ ~NewIsNext
    /\ pcSim = "extract" =>
          /\ IsLevel(Vp_vec[1], i + 1) /\ IsLevel(Vp_vec[2], i + 1)
          /\ ~NewIsNext
    /\ pcSim = "backsub" =>
          /\ V_new = Vp_vec[1] /\ p_new = Vp_vec[2] /\ NewIsNext
          /\ ~V_new.slaves /\ ~p_new.slaves
    /\ pcSim = "gif" => (NewIsNext /\ V_new.slaves /\ p_new.slaves /\ Frames(i))
    /\ pcSim \in {"progress", "advance"} => (Frames(i + 1) /\ OldIsCurrent /\ NewIsNext)
    /\ (pcSim = "for" /\ i >= 0) =>
          (V_old = V_new /\ p_old = p_new /\ NewIsNext /\ V_old.slaves /\ p_old.slaves)

\* C8 witness: a second or later pass has just ended.
C8_Witness == pcSim = "for" /\ i >= 1 /\ V_old = V_new /\ IsLevel(V_old, i + 1)

\* C9: the progress line is printed in pass i exactly when the integer
\* percentage is at least 20 above the one last printed; printed percentages
\* are at least 20 apart, at most 5 lines are printed, and Nt = 100 prints
\* at 20, 40, 60, 80, 100, the last one in the final pass.
LastPrintedBefore ==
    LET earlier == SelectSeq(stdoutSim, LAMBDA ln : ln.i < i)
    IN IF earlier = <<>> THEN 0 ELSE earlier[Len(earlier)].progress
PrintedNow == \E k \in 1..Len(stdoutSim) : stdoutSim[k].i = i
C9_ProgressEvery20 ==
    /\ pcSim = "advance" =>
          /\ PrintedNow <=> (Percent(i + 1, Nt) >= LastPrintedBefore + 20)
          /\ PrintedNow => stdoutSim[Len(stdoutSim)].progress = Percent(i + 1, Nt)
    /\ \A k \in 1..Len(stdoutSim) :
          stdoutSim[k].progress >= 20 + (IF k = 1 THEN 0 ELSE stdoutSim[k - 1].progress)
    /\ Len(stdoutSim) <= 5
    /\ (Nt = NtScript /\ pcSim = "done") =>
          /\ [k \in 1..Len(stdoutSim) |-> stdoutSim[k].progress] = <<20, 40, 60, 80, 100>>
          /\ stdoutSim[Len(stdoutSim)].i = Nt - 1

\* C9 witness: the run with Nt = 100 is over and five lines were printed.
C9_Witness == Nt = NtScript /\ pcSim = "done" /\ Len(stdoutSim) = 5

\* C10: update_gif writes one frame whatever warp_gif and clip_gif are; each
\* animation has Nt frames after the loop; the frame of pass i shows V_old
\* (p_old) as it is before the overwrite of that pass, so the last solution
\* is in no frame.
ShowsOld(frames, f) ==
    \A k \in 1..Len(frames) : frames[k].uh.field = f /\ IsLevel(frames[k].uh, k - 1)
C10_FramesShowOld ==
    /\ plotterV.open =>
          \A w \in BOOLEAN, c \in BOOLEAN :
             /\ Len(update_gif(plotterV, V_old, w, c).frames) = Len(plotterV.frames) + 1
             /\ Len(update_gif(plotterp, p_old, w, c).frames) = Len(plotterp.frames) + 1
    /\ pcSim \in {"finalize", "done"} => Frames(Nt)
    /\ ShowsOld(plotterV.frames, "V") /\ ShowsOld(plotterp.frames, "p")
    /\ (pcSim = "done" /\ Nt >= 1) =>
          /\ IsLevel(V_new, Nt) /\ IsLevel(p_new, Nt)
          /\ \A k \in 1..Len(plotterV.frames) : plotterV.frames[k].uh # V_new
          /\ \A k \in 1..Len(plotterp.frames) : plotterp.frames[k].uh # p_new

\* C10 witness: a run of several steps is over, its last frame one level
\* behind the last solution.
C10_Witness ==
    /\ pcSim = "done" /\ Nt >= 2 /\ Frames(Nt)
    /\ plotterV.frames[Nt].uh.level = Nt - 1 /\ V_new.level = Nt

(***************************************************************************)
(* Properties of periodic_relation (checked under SpecRel)                 *)
(***************************************************************************)
\* C7: a point with x = 1 is mapped to the point with first coordinate 0 and
\* the same y, and applying periodic_relation twice gives the same as once.
C7_PeriodicRelation ==
    /\ pcRel >= 1 =>
          \A c \in 1..NumPts :
             x[1][c] = 1 => (out_x[1][c] = 0 /\ out_x[2][c] = x[2][c])
    /\ pcRel = 2 => out_x2 = out_x

\* C7 witness: a point on the right boundary with nonzero y and z went
\* through both applications.
C7_Witness ==
    /\ pcRel = 2
    /\ \E c \in 1..NumPts : x[1][c] = 1 /\ x[2][c] # 0 /\ x[3][c] # 0

====
